---- MODULE Spec2Model ----
(***************************************************************************)
(* Model of the enigma-forense backend (src/vpnDetection.js) and of the    *)
(* browser client that drives it (src/unnamed/part_000).                   *)
(*                                                                         *)
(* Four specifications:                                                    *)
(*   SpecGate  - VpnDetectionService: checkIp with its cache, the Express  *)
(*               middleware built on it, clearCache and the clock.         *)
(*   Spec      - the server: the stored stats and users, the in-memory     *)
(*               counters, the HTTP handlers behind checkVpn, the          *)
(*               socket.io handlers and initializeCounters.                *)
(*   SpecTier  - the two newDifficulty computations as pure functions.     *)
(*   SpecClient - Spec with one registerEnigmaSolution call of the client  *)
(*               among the requests and events.                            *)
(*                                                                         *)
(* An async handler is cut at its awaits: a store or provider operation    *)
(* takes effect when it is issued, and the code after the await runs in a  *)
(* later step with the value the operation returned.                       *)
(***************************************************************************)
EXTENDS Integers, Sequences, FiniteSets, TLC

VARIABLES
  enabled,      \* VpnDetectionService.enabled (VPN_DETECTION_ENABLED === 'true')
  apiKey,       \* TRUE iff this.apiKey is set and is not 'your_api_key_here'
  cache,        \* VpnDetectionService.cache: address -> [timestamp, data]
  now,          \* Date.now()
  calls,        \* the requests that went through middleware(), one record each
  stats,        \* the stored record db.ref('stats'); NoStats when there is none
  users,        \* the stored records db.ref('users'): id -> record
  activeUsers,      \* let activeUsers
  activatedEnigmas, \* let activatedEnigmas
  solvedEnigmas,    \* let solvedEnigmas
  init,         \* initializeCounters: where it stands, and what it read
  reqs,         \* the HTTP requests, one record each
  ops,          \* how many socket events and stats transactions have run
  stats0,       \* the stored stats when the process started
  io,           \* what io.emit sent last, and the payload of the last enigma_* event
  topTier,      \* the highest tier a solve has reported so far (0: none yet)
  process,      \* "serving", or "exited" once the runtime has ended the process
  client,       \* one registerEnigmaSolution call of a browser client
  tierInput,    \* a solved count
  httpTier,     \* newDifficulty of the HTTP solve handler for it (0: not computed)
  socketTier    \* newDifficulty of the enigma_solved handler for it (0: not computed)

gateVars == <<enabled, apiKey, cache, now, calls>>
serverVars ==
  <<stats, users, activeUsers, activatedEnigmas, solvedEnigmas, init, reqs, ops,
    stats0, io, topTier, process, client>>
tierVars == <<tierInput, httpTier, socketTier>>

----------------------------------------------------------------------------
(* Bounds *)

MaxCalls == 2      \* requests through the middleware
MaxEpochs == 1     \* the clock runs to MaxEpochs * cacheExpiration
MaxReqs == 2       \* HTTP requests
MaxEvents == 2     \* socket events (connection, disconnect, enigma_*)
MaxSolved == 1001  \* the solved counts the tier is computed for

----------------------------------------------------------------------------
(* JavaScript values: booleans and undefined, as strings *)

JsTrue == "true"
JsFalse == "false"
JsUndefined == "undefined"

Truthy(v) == v = JsTrue

\* a || b
JsOr(a, b) == IF Truthy(a) THEN a ELSE b

\* a && b, for a boolean a
JsAnd(a, b) == IF Truthy(a) THEN b ELSE a

JsBool(b) == IF b THEN JsTrue ELSE JsFalse

----------------------------------------------------------------------------
(* Addresses: strings as sequences of characters *)

StartsWith(s, p) == Len(s) >= Len(p) /\ SubSeq(s, 1, Len(p)) = p

V6Prefix == <<":", ":", "f", "f", "f", "f", ":">>

\* ip.replace(/^::ffff:/, '')
cleanIpOf(ip) ==
  IF StartsWith(ip, V6Prefix) THEN SubSeq(ip, Len(V6Prefix) + 1, Len(ip)) ELSE ip

Loopback == <<"1", "2", "7", ".", "0", ".", "0", ".", "1">>
Localhost == <<"l", "o", "c", "a", "l", "h", "o", "s", "t">>
AddrTen == <<"1", "0", ".", "0", ".", "0", ".", "7">>
AddrLan == <<"1", "9", "2", ".", "1", "6", "8", ".", "1", ".", "2">>
AddrPublic == <<"2", "0", "3", ".", "0", ".", "1", "1", "3", ".", "5">>
AddrHundred == <<"1", "0", "0", ".", "6", "4", ".", "0", ".", "1">>

\* The addresses a request can carry (x-forwarded-for, x-real-ip, remoteAddress).
RawAddrs ==
  { V6Prefix \o Loopback, AddrTen, AddrLan, V6Prefix \o AddrPublic, AddrHundred }

\* The test of the middleware for a local address.
isLocalIpNoTen(cleanIp) ==
  \/ cleanIp = Loopback
  \/ cleanIp = Localhost
  \/ StartsWith(cleanIp, <<"1", "9", "2", ".", "1", "6", "8", ".">>)
isLocalIp(cleanIp) ==
  \/ cleanIp = Loopback
  \/ cleanIp = Localhost
  \/ StartsWith(cleanIp, <<"1", "9", "2", ".", "1", "6", "8", ".">>)
  \/ StartsWith(cleanIp, <<"1", "0", ".">>)

----------------------------------------------------------------------------
(* Verdicts *)

NoVerdict == [isVpn |-> "none", proxy |-> "none", vpn |-> "none", tor |-> "none"]

\* { isVpn: false, proxy: false, vpn: false, tor: false }
AllowVerdict ==
  [isVpn |-> JsFalse, proxy |-> JsFalse, vpn |-> JsFalse, tor |-> JsFalse]

\* What the provider can do with a request: answer with a body (response.data,
\* whose proxy, vpn and tor may be missing: an error body, a quota message, a
\* body that is no JSON), or make axios.get reject (network error, timeout,
\* status outside 2xx).
ProviderData ==
  { [proxy |-> JsFalse, vpn |-> JsFalse, tor |-> JsFalse],
    [proxy |-> JsTrue, vpn |-> JsFalse, tor |-> JsTrue],
    [proxy |-> JsUndefined, vpn |-> JsUndefined, tor |-> JsUndefined] }

WellFormed(d) == d.proxy # JsUndefined /\ d.vpn # JsUndefined /\ d.tor # JsUndefined

ProviderAnswers ==
  { [kind |-> IF WellFormed(d) THEN "ok" ELSE "malformed", data |-> d] : d \in ProviderData }
  \cup { [kind |-> "throw", data |-> [proxy |-> JsUndefined, vpn |-> JsUndefined, tor |-> JsUndefined]] }

\* The result checkIp builds from response.data.
resultOfResponse(d) ==
  [isVpn |-> JsOr(JsOr(d.proxy, d.vpn), d.tor),
   proxy |-> d.proxy, vpn |-> d.vpn, tor |-> d.tor]

\* The draws of Math.random() in the simulation: isVpn, and one per signal.
SimDraws ==
  { [isVpn |-> FALSE, proxy |-> TRUE, vpn |-> FALSE, tor |-> FALSE],
    [isVpn |-> TRUE, proxy |-> FALSE, vpn |-> TRUE, tor |-> FALSE],
    [isVpn |-> TRUE, proxy |-> FALSE, vpn |-> FALSE, tor |-> FALSE] }

\* The simulated result.
resultOfSimulation(w) ==
  [isVpn |-> JsBool(w.isVpn),
   proxy |-> JsAnd(JsBool(w.isVpn), JsBool(w.proxy)),
   vpn |-> JsAnd(JsBool(w.isVpn), JsBool(w.vpn)),
   tor |-> JsAnd(JsBool(w.isVpn), JsBool(w.tor))]

----------------------------------------------------------------------------
(* The cache *)

cacheExpiration == 3600000

\* Date.now() - cachedResult.timestamp < this.cacheExpiration
cacheFreshLe(entry, t) == t - entry.timestamp <= cacheExpiration
cacheFresh(entry, t) == t - entry.timestamp < cacheExpiration

\* this.cache.set(ip, { timestamp: Date.now(), data: result })
cacheSet(c, ip, t, result) ==
  [k \in DOMAIN c \cup {ip} |->
     IF k = ip THEN [timestamp |-> t, data |-> result] ELSE c[k]]

\* this.cache.delete(ip)
cacheDelete(c, ip) == [k \in DOMAIN c \ {ip} |-> c[k]]

EmptyCache == [k \in {} |-> [timestamp |-> 0, data |-> NoVerdict]]

----------------------------------------------------------------------------
(* checkIp *)

\* The check without the test of this.enabled.
checkIpEnterNoFlag(ip, w) ==
  IF ip \in DOMAIN cache /\ cacheFresh(cache[ip], now)
  THEN [ret |-> TRUE, outcome |-> "hit", result |-> cache[ip].data,
        cache |-> cache, sawEntry |-> TRUE, cachedTs |-> cache[ip].timestamp,
        called |-> FALSE]
  ELSE IF apiKey
  THEN [ret |-> FALSE, outcome |-> "await", result |-> NoVerdict,
        cache |-> cache, sawEntry |-> FALSE, cachedTs |-> 0, called |-> TRUE]
  ELSE [ret |-> TRUE, outcome |-> "simulated", result |-> resultOfSimulation(w),
        cache |-> cacheSet(cache, ip, now, resultOfSimulation(w)),
        sawEntry |-> FALSE, cachedTs |-> 0, called |-> FALSE]

\* checkIp from its entry to its first return or to the await of axios.get.
\* ret: it returned; outcome: which branch; sawEntry/cachedTs: cachedResult.
checkIpEnter(ip, w) ==
  IF ~enabled
  THEN [ret |-> TRUE, outcome |-> "disabled", result |-> AllowVerdict,
        cache |-> cache, sawEntry |-> FALSE, cachedTs |-> 0, called |-> FALSE]
  ELSE IF ip \in DOMAIN cache /\ cacheFresh(cache[ip], now)
  THEN [ret |-> TRUE, outcome |-> "hit", result |-> cache[ip].data,
        cache |-> cache, sawEntry |-> TRUE, cachedTs |-> cache[ip].timestamp,
        called |-> FALSE]
  ELSE LET saw == ip \in DOMAIN cache
           ts == IF saw THEN cache[ip].timestamp ELSE 0
           c1 == IF saw THEN cacheDelete(cache, ip) ELSE cache
       IN IF apiKey
          THEN [ret |-> FALSE, outcome |-> "await", result |-> NoVerdict,
                cache |-> c1, sawEntry |-> saw, cachedTs |-> ts, called |-> TRUE]
          ELSE [ret |-> TRUE, outcome |-> "simulated",
                result |-> resultOfSimulation(w),
                cache |-> cacheSet(c1, ip, now, resultOfSimulation(w)),
                sawEntry |-> saw, cachedTs |-> ts, called |-> FALSE]

\* checkIp after the await: the result is built and cached, or the catch runs.
checkIpResumeNoStore(ip, a) ==
  IF a.kind = "throw"
  THEN [outcome |-> "failed", result |-> AllowVerdict, cache |-> cache]
  ELSE [outcome |-> "looked-up", result |-> resultOfResponse(a.data),
        cache |-> cache]
checkIpResume(ip, a) ==
  IF a.kind = "throw"
  THEN [outcome |-> "failed", result |-> AllowVerdict, cache |-> cache]
  ELSE [outcome |-> "looked-up", result |-> resultOfResponse(a.data),
        cache |-> cacheSet(cache, ip, now, resultOfResponse(a.data))]

----------------------------------------------------------------------------
(* middleware *)

NoDetails == [proxy |-> "none", vpn |-> "none", tor |-> "none"]
NoBody == [fields |-> {}, details |-> NoDetails]

\* The end of the middleware: res.status(403).json({...}) or next().
middlewareRespond(result) ==
  IF Truthy(result.isVpn)
  THEN [status |-> "403",
        body |-> [fields |-> {"error", "message", "details"},
                  details |-> [proxy |-> result.proxy, vpn |-> result.vpn,
                               tor |-> result.tor]]]
  ELSE [status |-> "next", body |-> NoBody]

Slots == 1..MaxCalls

IdleCall ==
  [pc |-> "idle", hdr |-> <<>>, ip |-> <<>>, started |-> 0,
   cleared |-> FALSE, sawEntry |-> FALSE, cachedTs |-> 0, called |-> FALSE,
   provider |-> "none", outcome |-> "none", result |-> NoVerdict,
   status |-> "none", body |-> NoBody]

\* A request arrives and the middleware runs to its return or to the await in
\* checkIp.
middleware(r, hdr, w) ==
  /\ calls[r].pc = "idle"
  /\ \A s \in Slots : s < r => calls[s].pc # "idle"
  /\ LET ip == cleanIpOf(hdr)
         local == [IdleCall EXCEPT !.hdr = hdr, !.ip = ip]
         base == [local EXCEPT !.started = now]
     IN IF isLocalIp(ip)
        THEN /\ calls' = [calls EXCEPT ![r] =
                   [local EXCEPT !.pc = "done", !.outcome = "local",
                                 !.status = "next"]]
             /\ cache' = cache
        ELSE LET e == checkIpEnter(ip, w)
                 m == middlewareRespond(e.result)
             IN /\ cache' = e.cache
                /\ calls' = [calls EXCEPT ![r] =
                     [base EXCEPT !.pc = IF e.ret THEN "done" ELSE "await",
                                  !.sawEntry = e.sawEntry,
                                  !.cachedTs = e.cachedTs,
                                  !.called = e.called,
                                  !.outcome = e.outcome,
                                  !.result = e.result,
                                  !.status = IF e.ret THEN m.status ELSE "none",
                                  !.body = IF e.ret THEN m.body ELSE NoBody]]
  /\ UNCHANGED <<enabled, apiKey, now, serverVars, tierVars>>

\* axios.get settles: checkIp and then the middleware run to their end.
providerSettles(r, a) ==
  /\ calls[r].pc = "await"
  /\ LET e == checkIpResume(calls[r].ip, a)
         m == middlewareRespond(e.result)
     IN /\ cache' = e.cache
        /\ calls' = [calls EXCEPT ![r] =
             [@ EXCEPT !.pc = "done", !.provider = a.kind,
                       !.outcome = e.outcome, !.result = e.result,
                       !.status = m.status, !.body = m.body]]
  /\ UNCHANGED <<enabled, apiKey, now, serverVars, tierVars>>

\* clearCache(). Every call that has returned from a provider lookup is
\* marked: the cache was cleared after it.
clearCache ==
  /\ cache' = EmptyCache
  /\ calls' = [s \in Slots |->
       IF calls[s].pc = "done" /\ calls[s].called
       THEN [calls[s] EXCEPT !.cleared = TRUE] ELSE calls[s]]
  /\ UNCHANGED <<enabled, apiKey, now, serverVars, tierVars>>

\* The instants at which something can differ: around each multiple of the TTL.
TimePoints ==
  {0} \cup {k * cacheExpiration + d : k \in 1..MaxEpochs, d \in {-1, 0}}

\* Time passes.
Tick ==
  /\ \E t \in TimePoints : t > now /\ now' = t
  /\ UNCHANGED <<enabled, apiKey, cache, calls, serverVars, tierVars>>

NextGate ==
  \/ \E r \in Slots, hdr \in RawAddrs, w \in SimDraws : middleware(r, hdr, w)
  \/ \E r \in Slots, a \in ProviderAnswers : providerSettles(r, a)
  \/ clearCache
  \/ Tick

----------------------------------------------------------------------------
(* The store *)

NoStats == [k \in {} |-> 0]

StatsOf(a, b, c) ==
  [activeUsers |-> a, activatedEnigmas |-> b, solvedEnigmas |-> c]

\* stats.f || 0
fieldOrZero(s, f) == IF f \in DOMAIN s THEN s[f] ELSE 0

\* statsRef.transaction(stats => { stats = stats || {0, 0, 0};
\*                                stats.f = (stats.f || 0) + 1; return stats })
statsTransaction(s, f) ==
  LET s1 == IF s = NoStats THEN StatsOf(0, 0, 0) ELSE s
  IN [k \in DOMAIN s1 \cup {f} |->
        IF k = f THEN fieldOrZero(s1, f) + 1 ELSE s1[k]]

\* GET /api/stats: snapshot.val() || { activeUsers, activatedEnigmas,
\* solvedEnigmas }
getStats(s, a, b, c) == IF s # NoStats THEN s ELSE StatsOf(a, b, c)

\* statsRef.update({ f: v })
statsUpdate(s, f, v) == [k \in DOMAIN s \cup {f} |-> IF k = f THEN v ELSE s[k]]

Nobody == -1
\* req.body without userId: the handler reads users/undefined
UndefinedId == -2
NoUsers == [k \in {} |-> [fingerprint |-> "none", activated |-> FALSE, solved |-> {}]]

\* usersRef.child(userId).set({ id, fingerprint, createdAt, lastSeen })
usersSet(u, id, fp) ==
  [k \in DOMAIN u \cup {id} |->
     IF k = id THEN [fingerprint |-> fp, activated |-> FALSE, solved |-> {}]
     ELSE u[k]]

\* A query that finds no record.
usersByFingerprintNone(u, fp) == {}

\* usersRef.orderByChild('fingerprint').equalTo(fp): the ids found
usersByFingerprint(u, fp) == {k \in DOMAIN u : u[k].fingerprint = fp}

SetMin(S) == CHOOSE x \in S : \A y \in S : x <= y

Max(a, b) == IF a >= b THEN a ELSE b

----------------------------------------------------------------------------
(* newDifficulty *)

\* The HTTP solve handler: currentStats = (await statsRef.once('value')).val()
\* || { solvedEnigmas: 0 }
httpNewDifficultyGt(currentStats) ==
  LET cs == IF currentStats = NoStats THEN [solvedEnigmas |-> 0] ELSE currentStats
      has == "solvedEnigmas" \in DOMAIN cs
  IN IF has /\ cs.solvedEnigmas > 1000 THEN 3
     ELSE IF has /\ cs.solvedEnigmas >= 100 THEN 2
     ELSE 1
httpNewDifficulty(currentStats) ==
  LET cs == IF currentStats = NoStats THEN [solvedEnigmas |-> 0] ELSE currentStats
      has == "solvedEnigmas" \in DOMAIN cs
  IN IF has /\ cs.solvedEnigmas >= 1000 THEN 3
     ELSE IF has /\ cs.solvedEnigmas >= 100 THEN 2
     ELSE 1

\* The enigma_solved handler, from the in-memory solvedEnigmas.
socketNewDifficulty(solved) ==
  IF solved >= 1000 THEN 3
  ELSE IF solved >= 100 THEN 2
  ELSE 1

----------------------------------------------------------------------------
(* The server: checkVpn and the HTTP handlers *)

ReqSlots == 1..MaxReqs

NoReply ==
  [status |-> 0, fields |-> {}, userId |-> Nobody, isNew |-> FALSE,
   newDifficulty |-> 0]

IdleReq ==
  [pc |-> "idle", kind |-> "none", gate |-> "none", userId |-> Nobody,
   fp |-> "none", level |-> 0, found |-> {}, read |-> NoStats,
   rejected |-> FALSE, reply |-> NoReply]

\* checkVpn: Math.random() < 0.05 decides; 403 with { error }, or next().
checkVpn(isVpn) ==
  IF isVpn
  THEN [gate |-> "rejected",
        reply |-> [NoReply EXCEPT !.status = 403, !.fields = {"error"}]]
  ELSE [gate |-> "allowed", reply |-> NoReply]

\* catch (error) { console.error(...); res.status(500).json({ error }) }
ServerError == [NoReply EXCEPT !.status = 500, !.fields = {"error"}]

Serving == process = "serving"

Fingerprints == {"fpA", "fpB"}
Levels == {1}
\* req.body without level: the handler writes enigmaSolved_undefined
UndefinedLevel == 0

\* The id uuidv4() gives the request in slot q.
uuidOf(q) == q

ReqStep(q, r) == reqs' = [reqs EXCEPT ![q] = r]

\* The handler of request r has answered and returned: what remains of the
\* request is its kind, what the gate decided and the response.
respond(r, reply) ==
  [IdleReq EXCEPT !.pc = "done", !.kind = r.kind, !.gate = r.gate,
                  !.reply = reply]

HttpAct == [ops EXCEPT !.httpAct = @ + 1]
HttpSol == [ops EXCEPT !.httpSol = @ + 1]

memVars == <<activeUsers, activatedEnigmas, solvedEnigmas>>

\* A request arrives: checkVpn, and when it calls next() the handler runs to
\* its first await (the read of users it issues).
httpArrivesStep(q, kind, isVpn, userId, fp, level) ==
  /\ Serving
  /\ reqs[q].pc = "idle"
  /\ \A p \in ReqSlots : p < q => reqs[p].pc # "idle"
  /\ LET g == checkVpn(isVpn)
         base == [IdleReq EXCEPT !.kind = kind, !.gate = g.gate]
     IN IF g.gate = "rejected"
        THEN ReqStep(q, respond(base, g.reply))
        ELSE IF kind = "register"
        THEN ReqStep(q, [base EXCEPT !.pc = "reg_query", !.fp = fp,
                                     !.userId = uuidOf(q),
                                     !.found = usersByFingerprint(users, fp)])
        ELSE ReqStep(q, [base EXCEPT !.pc = IF kind = "activate"
                                            THEN "act_read" ELSE "sol_read",
                                     !.userId = userId,
                                     !.level = IF kind = "solve" THEN level ELSE 0,
                                     !.found = {userId} \cap DOMAIN users])
  /\ UNCHANGED <<stats, users, memVars, init, ops, stats0, io, topTier, process, gateVars, tierVars>>

httpArrives(q, kind, isVpn, userId, fp, level) ==
  httpArrivesStep(q, kind, isVpn, userId, fp, level) /\ UNCHANGED client

\* /api/register-user after the query: the stored id, or the new record is set.
registerAfterQuery(q) ==
  /\ Serving
  /\ reqs[q].pc = "reg_query"
  /\ IF reqs[q].found # {}
     THEN /\ ReqStep(q, respond(reqs[q], [NoReply EXCEPT !.status = 200,
                                           !.fields = {"userId", "isNew"},
                                           !.userId = SetMin(reqs[q].found),
                                           !.isNew = FALSE]))
          /\ users' = users
     ELSE /\ ReqStep(q, [reqs[q] EXCEPT !.pc = "reg_set"])
          /\ users' = usersSet(users, reqs[q].userId, reqs[q].fp)
  /\ UNCHANGED <<stats, memVars, init, ops, stats0, io, topTier, process, gateVars, tierVars, client>>

\* /api/register-user after the set: the transaction on stats.activeUsers,
\* which the store applies (ok) or rejects.
registerAfterSet(q, ok) ==
  /\ Serving
  /\ reqs[q].pc = "reg_set"
  /\ ReqStep(q, [reqs[q] EXCEPT !.pc = "reg_txn", !.rejected = ~ok])
  /\ stats' = IF ok THEN statsTransaction(stats, "activeUsers") ELSE stats
  /\ UNCHANGED <<users, memVars, init, ops, stats0, io, topTier, process, gateVars, tierVars, client>>

\* /api/register-user after the transaction: res.json({ userId, isNew: true }),
\* or the catch when the transaction was rejected.
registerAfterTransaction(q) ==
  /\ Serving
  /\ reqs[q].pc = "reg_txn"
  /\ ReqStep(q, respond(reqs[q], IF reqs[q].rejected THEN ServerError
                   ELSE [NoReply EXCEPT !.status = 200,
                                        !.fields = {"userId", "isNew"},
                                        !.userId = reqs[q].userId,
                                        !.isNew = TRUE]))
  /\ UNCHANGED <<stats, users, memVars, init, ops, stats0, io, topTier, process, gateVars, tierVars, client>>

NotFound == [NoReply EXCEPT !.status = 404, !.fields = {"error"}]

\* The handler without its check of snapshot.exists().
activateAfterReadNoCheck(q) ==
  /\ Serving
  /\ reqs[q].pc = "act_read"
  /\ ReqStep(q, [reqs[q] EXCEPT !.pc = "act_upd"])
  /\ users' = users
  /\ UNCHANGED <<stats, memVars, init, ops, stats0, io, topTier, process, gateVars, tierVars, client>>

\* /api/activate-enigma after the read of the user: 404, or userRef.update.
activateAfterRead(q) ==
  /\ Serving
  /\ reqs[q].pc = "act_read"
  /\ IF reqs[q].found = {}
     THEN /\ ReqStep(q, respond(reqs[q], NotFound))
          /\ users' = users
     ELSE /\ ReqStep(q, [reqs[q] EXCEPT !.pc = "act_upd"])
          /\ users' = [users EXCEPT ![reqs[q].userId].activated = TRUE]
  /\ UNCHANGED <<stats, memVars, init, ops, stats0, io, topTier, process, gateVars, tierVars, client>>

\* /api/activate-enigma after the update: the transaction on activatedEnigmas,
\* which the store applies (ok) or rejects.
activateAfterUpdate(q, ok) ==
  /\ Serving
  /\ reqs[q].pc = "act_upd"
  /\ ReqStep(q, [reqs[q] EXCEPT !.pc = "act_txn", !.rejected = ~ok])
  /\ stats' = IF ok THEN statsTransaction(stats, "activatedEnigmas") ELSE stats
  /\ ops' = IF ok THEN HttpAct ELSE ops
  /\ UNCHANGED <<users, memVars, init, stats0, io, topTier, process, gateVars, tierVars, client>>

\* /api/activate-enigma after the transaction: res.json({ success: true }),
\* or the catch when the transaction was rejected.
activateAfterTransaction(q) ==
  /\ Serving
  /\ reqs[q].pc = "act_txn"
  /\ ReqStep(q, respond(reqs[q], IF reqs[q].rejected THEN ServerError
                   ELSE [NoReply EXCEPT !.status = 200, !.fields = {"success"}]))
  /\ UNCHANGED <<stats, users, memVars, init, ops, stats0, io, topTier, process, gateVars, tierVars, client>>

\* /api/solve-enigma after the read of the user: 404, or userRef.update.
solveAfterRead(q) ==
  /\ Serving
  /\ reqs[q].pc = "sol_read"
  /\ IF reqs[q].found = {}
     THEN /\ ReqStep(q, respond(reqs[q], NotFound))
          /\ users' = users
     ELSE /\ ReqStep(q, [reqs[q] EXCEPT !.pc = "sol_upd"])
          /\ users' = [users EXCEPT ![reqs[q].userId].solved =
                         @ \cup {reqs[q].level}]
  /\ UNCHANGED <<stats, memVars, init, ops, stats0, io, topTier, process, gateVars, tierVars, client>>

\* /api/solve-enigma after the update: the transaction on solvedEnigmas,
\* which the store applies (ok) or rejects.
solveAfterUpdate(q, ok) ==
  /\ Serving
  /\ reqs[q].pc = "sol_upd"
  /\ ReqStep(q, [reqs[q] EXCEPT !.pc = "sol_txn", !.rejected = ~ok])
  /\ stats' = IF ok THEN statsTransaction(stats, "solvedEnigmas") ELSE stats
  /\ ops' = IF ok THEN HttpSol ELSE ops
  /\ UNCHANGED <<users, memVars, init, stats0, io, topTier, process, gateVars, tierVars, client>>

\* /api/solve-enigma after the transaction: the read of stats is issued, or
\* the catch when the transaction was rejected.
solveAfterTransaction(q) ==
  /\ Serving
  /\ reqs[q].pc = "sol_txn"
  /\ IF reqs[q].rejected
     THEN ReqStep(q, respond(reqs[q], ServerError))
     ELSE ReqStep(q, [reqs[q] EXCEPT !.pc = "sol_stats", !.read = stats])
  /\ UNCHANGED <<stats, users, memVars, init, ops, stats0, io, topTier, process, gateVars, tierVars, client>>

\* /api/solve-enigma after the read: res.json({ success: true, newDifficulty }).
solveAfterStats(q) ==
  /\ Serving
  /\ reqs[q].pc = "sol_stats"
  /\ ReqStep(q, respond(reqs[q], [NoReply EXCEPT !.status = 200,
                                   !.fields = {"success", "newDifficulty"},
                                   !.newDifficulty =
                                     httpNewDifficulty(reqs[q].read)]))
  /\ topTier' = Max(topTier, httpNewDifficulty(reqs[q].read))
  /\ UNCHANGED <<stats, users, memVars, init, ops, stats0, io, process, gateVars, tierVars, client>>

----------------------------------------------------------------------------
(* The server: socket.io *)

connected == ops.conn - ops.disc
events == ops.conn + ops.disc + ops.sockAct + ops.sockSol

\* Nothing was emitted yet.
NoIo ==
  [stats_update |-> NoStats, sent |-> 0, to |-> 0, difficulty_change |-> 0,
   changes |-> 0]

\* io.emit('stats_update', { activeUsers, activatedEnigmas, solvedEnigmas }),
\* which goes to the n sockets connected when it is called
emitStatsUpdate(o, a, b, c, n) ==
  [o EXCEPT !.stats_update = StatsOf(a, b, c), !.sent = @ + 1, !.to = n]

\* io.emit('difficulty_change', { level })
emitDifficultyChange(o, level) ==
  [o EXCEPT !.difficulty_change = level, !.changes = @ + 1]

\* statsRef.update({ f }) is not awaited and has no handler for its rejection:
\* the store applies it ("ok"), or rejects it and the runtime either warns of
\* the unhandled rejection ("warn") or ends the process ("exit").
WriteOutcomes == {"ok", "warn", "exit"}

\* A connection handler that emits before it counts the socket.
connectionEmitsFirst ==
  /\ Serving
  /\ events < MaxEvents
  /\ activeUsers' = activeUsers + 1
  /\ ops' = [ops EXCEPT !.conn = @ + 1]
  /\ io' = emitStatsUpdate(io, activeUsers, activatedEnigmas, solvedEnigmas,
                           connected + 1)
  /\ UNCHANGED <<stats, users, activatedEnigmas, solvedEnigmas, init, reqs, stats0,
                 topTier, process, gateVars, tierVars, client>>

\* io.on('connection'): the connecting socket is among the connected ones.
connection ==
  /\ Serving
  /\ events < MaxEvents
  /\ activeUsers' = activeUsers + 1
  /\ ops' = [ops EXCEPT !.conn = @ + 1]
  /\ io' = emitStatsUpdate(io, activeUsers + 1, activatedEnigmas, solvedEnigmas,
                           connected + 1)
  /\ UNCHANGED <<stats, users, activatedEnigmas, solvedEnigmas, init, reqs, stats0,
                 topTier, process, gateVars, tierVars, client>>

\* socket.on('disconnect'), of a connected socket, which has left by then
disconnect ==
  /\ Serving
  /\ events < MaxEvents
  /\ connected > 0
  /\ activeUsers' = Max(0, activeUsers - 1)
  /\ ops' = [ops EXCEPT !.disc = @ + 1]
  /\ io' = emitStatsUpdate(io, Max(0, activeUsers - 1), activatedEnigmas,
                           solvedEnigmas, connected - 1)
  /\ UNCHANGED <<stats, users, activatedEnigmas, solvedEnigmas, init, reqs, stats0,
                 topTier, process, gateVars, tierVars, client>>

\* socket.on('enigma_activated', (data) => ...), from a connected socket; the
\* handler never reads data.
enigmaActivated(w) ==
  /\ Serving
  /\ events < MaxEvents
  /\ connected > 0
  /\ activatedEnigmas' = activatedEnigmas + 1
  /\ io' = emitStatsUpdate(io, activeUsers, activatedEnigmas + 1, solvedEnigmas,
                           connected)
  /\ stats' = IF w = "ok"
              THEN statsUpdate(stats, "activatedEnigmas", activatedEnigmas + 1)
              ELSE stats
  /\ process' = IF w = "exit" THEN "exited" ELSE process
  /\ ops' = [ops EXCEPT !.sockAct = @ + 1]
  /\ UNCHANGED <<users, activeUsers, solvedEnigmas, init, reqs, stats0, topTier,
                 gateVars, tierVars, client>>

\* socket.on('enigma_solved', (data) => ...), from a connected socket; the
\* handler never reads data.
enigmaSolvedStep(w) ==
  /\ Serving
  /\ events < MaxEvents
  /\ connected > 0
  /\ solvedEnigmas' = solvedEnigmas + 1
  /\ stats' = IF w = "ok"
              THEN statsUpdate(stats, "solvedEnigmas", solvedEnigmas + 1)
              ELSE stats
  /\ process' = IF w = "exit" THEN "exited" ELSE process
  /\ ops' = [ops EXCEPT !.sockSol = @ + 1]
  /\ LET newDifficulty == socketNewDifficulty(solvedEnigmas + 1)
         sent == emitStatsUpdate(io, activeUsers, activatedEnigmas,
                                 solvedEnigmas + 1, connected)
     IN IF newDifficulty > 1
        THEN /\ io' = emitDifficultyChange(sent, newDifficulty)
             /\ topTier' = Max(topTier, newDifficulty)
        ELSE /\ io' = sent
             /\ topTier' = topTier
  /\ UNCHANGED <<users, activeUsers, activatedEnigmas, init, reqs, stats0,
                 gateVars, tierVars>>

enigmaSolved(w) == enigmaSolvedStep(w) /\ UNCHANGED client

----------------------------------------------------------------------------
(* The server: initializeCounters *)

\* initializeCounters after the read of stats: the counters are taken from
\* it, or the zero record is set.
initializeAfterRead ==
  /\ Serving
  /\ init.pc = "read"
  /\ IF init.read # NoStats
     THEN /\ activeUsers' = fieldOrZero(init.read, "activeUsers")
          /\ activatedEnigmas' = fieldOrZero(init.read, "activatedEnigmas")
          /\ solvedEnigmas' = fieldOrZero(init.read, "solvedEnigmas")
          /\ stats' = stats
          /\ init' = [init EXCEPT !.pc = "done"]
     ELSE /\ stats' = StatsOf(0, 0, 0)
          /\ init' = [init EXCEPT !.pc = "set"]
          /\ UNCHANGED memVars
  /\ UNCHANGED <<users, reqs, ops, stats0, io, topTier, process, gateVars, tierVars, client>>

\* initializeCounters after the set: it logs and ends.
initializeAfterSet ==
  /\ Serving
  /\ init.pc = "set"
  /\ init' = [init EXCEPT !.pc = "done"]
  /\ UNCHANGED <<stats, users, memVars, reqs, ops, stats0, io, topTier, process, gateVars, tierVars, client>>

----------------------------------------------------------------------------
(* The client: EnigmaBackendService.registerEnigmaSolution *)

\* The call has not been made. Once made, the record keeps the slot q of its
\* HTTP request and, for the properties, the solved counts in memory and in
\* the store and the number of solves counted when it began.
IdleClient ==
  [pc |-> "idle", q |-> 0, mem0 |-> 0, stored0 |-> 0, solves0 |-> 0,
   status |-> 0, emitted |-> FALSE]

\* registerEnigmaSolution(level) of a client whose socket is connected, up to
\* its await: makeRequest('/solve-enigma', 'POST', { userId, level }) is sent
\* and reaches the server. this.userId is a registered id or the 'local_' id.
registerEnigmaSolution(q, isVpn, userId, level) ==
  /\ client.pc = "idle"
  /\ connected > 0
  /\ httpArrivesStep(q, "solve", isVpn, userId, "none", level)
  /\ client' = [IdleClient EXCEPT !.pc = "await", !.q = q,
                                  !.mem0 = solvedEnigmas,
                                  !.stored0 = fieldOrZero(stats, "solvedEnigmas"),
                                  !.solves0 = ops.httpSol + ops.sockSol]

\* registerEnigmaSolution after makeRequest returned, whatever it returned:
\* if (this.isConnected && this.socket) socket.emit('enigma_solved', ...),
\* which the server handles.
registerEnigmaSolutionEmits(w) ==
  /\ client.pc = "await"
  /\ reqs[client.q].pc = "done"
  /\ IF connected > 0
     THEN /\ enigmaSolvedStep(w)
          /\ client' = [client EXCEPT !.pc = "done", !.emitted = TRUE,
                                      !.status = reqs[client.q].reply.status]
     ELSE /\ client' = [client EXCEPT !.pc = "done",
                                      !.status = reqs[client.q].reply.status]
          /\ UNCHANGED <<stats, users, memVars, init, reqs, ops, stats0, io,
                         topTier, process, gateVars, tierVars>>

----------------------------------------------------------------------------
(* The specifications *)

\* What the store can hold when the process starts: nothing, or the stats and
\* the user of earlier runs.
StoredAtStart ==
  { [stats |-> NoStats, users |-> NoUsers],
    [stats |-> StatsOf(1, 0, 100), users |-> usersSet(NoUsers, 0, "fpA")],
    [stats |-> StatsOf(1, 1, 99), users |-> usersSet(NoUsers, 0, "fpA")],
    [stats |-> StatsOf(1, 2, 999), users |-> usersSet(NoUsers, 0, "fpA")] }

NoOps == [conn |-> 0, disc |-> 0, sockAct |-> 0, sockSol |-> 0,
          httpAct |-> 0, httpSol |-> 0]

\* The server when the process starts with st in the store: the counters are
\* 0 and initializeCounters has issued its read.
ServerStartsAt(st) ==
  /\ stats = st.stats
  /\ users = st.users
  /\ stats0 = st.stats
  /\ activeUsers = 0
  /\ activatedEnigmas = 0
  /\ solvedEnigmas = 0
  /\ init = [pc |-> "read", read |-> st.stats]
  /\ reqs = [q \in ReqSlots |-> IdleReq]
  /\ ops = NoOps
  /\ io = NoIo
  /\ topTier = 0
  /\ process = "serving"
  /\ client = IdleClient

\* The part a specification leaves alone starts in one state and stays there.
GateIdle ==
  /\ enabled = FALSE
  /\ apiKey = FALSE
  /\ cache = EmptyCache
  /\ now = 0
  /\ calls = [s \in Slots |-> IdleCall]

TierIdle == tierInput = 0 /\ httpTier = 0 /\ socketTier = 0

InitGate ==
  /\ enabled \in BOOLEAN
  /\ apiKey \in BOOLEAN
  /\ cache = EmptyCache
  /\ now = 0
  /\ calls = [s \in Slots |-> IdleCall]
  /\ ServerStartsAt([stats |-> NoStats, users |-> NoUsers]) /\ TierIdle

Init == \E st \in StoredAtStart : ServerStartsAt(st) /\ GateIdle /\ TierIdle

NextServer ==
  \/ \E q \in ReqSlots, kind \in {"register", "activate", "solve"},
        isVpn \in BOOLEAN, userId \in DOMAIN users \cup {Nobody, UndefinedId},
        fp \in Fingerprints, level \in Levels \cup {UndefinedLevel} :
        httpArrives(q, kind, isVpn, userId, fp, level)
  \/ \E q \in ReqSlots, ok \in BOOLEAN :
        \/ registerAfterSet(q, ok)
        \/ activateAfterUpdate(q, ok)
        \/ solveAfterUpdate(q, ok)
  \/ \E q \in ReqSlots :
        \/ registerAfterQuery(q)
        \/ registerAfterTransaction(q)
        \/ activateAfterRead(q)
        \/ activateAfterTransaction(q)
        \/ solveAfterRead(q)
        \/ solveAfterTransaction(q)
        \/ solveAfterStats(q)
  \/ connection
  \/ disconnect
  \/ \E w \in WriteOutcomes : enigmaActivated(w)
  \/ \E w \in WriteOutcomes : enigmaSolved(w)
  \/ initializeAfterRead
  \/ initializeAfterSet

\* The two computations of newDifficulty, each applied to the solved count.
tierByHttp ==
  /\ httpTier = 0
  /\ httpTier' = httpNewDifficulty(StatsOf(0, 0, tierInput))
  /\ UNCHANGED <<tierInput, socketTier, gateVars, serverVars>>

tierBySocket ==
  /\ socketTier = 0
  /\ socketTier' = socketNewDifficulty(tierInput)
  /\ UNCHANGED <<tierInput, httpTier, gateVars, serverVars>>

InitTier ==
  /\ tierInput \in 0..MaxSolved /\ httpTier = 0 /\ socketTier = 0
  /\ ServerStartsAt([stats |-> NoStats, users |-> NoUsers]) /\ GateIdle

NextTier == tierByHttp \/ tierBySocket

\* The server driven by any requests and events, one registerEnigmaSolution
\* call among them.
NextClient ==
  \/ NextServer
  \/ \E q \in ReqSlots, isVpn \in BOOLEAN, userId \in DOMAIN users \cup {Nobody},
        level \in Levels :
        registerEnigmaSolution(q, isVpn, userId, level)
  \/ \E w \in WriteOutcomes : registerEnigmaSolutionEmits(w)

vars == <<gateVars, serverVars, tierVars>>

SpecGate == InitGate /\ [][NextGate]_vars

Spec == Init /\ [][NextServer]_vars

SpecTier == InitTier /\ [][NextTier]_vars

SpecClient == Init /\ [][NextClient]_vars

----------------------------------------------------------------------------
(* Properties of checkIp and of the middleware, under SpecGate *)

\* Call r enters the middleware in this step.
Starts(r) == calls[r].pc = "idle" /\ calls'[r].pc # "idle"

\* Call r comes back from the provider in this step.
Settles(r) == calls[r].pc = "await" /\ calls'[r].pc = "done"

\* C4: checkIp serves the cached data only while now - timestamp is below
\* cacheExpiration; an entry at or past expiry is deleted and the lookup goes
\* on as a miss (to the provider, or to the simulation, which stores anew).
C4_NeverServedPastExpiry ==
  [][\A r \in Slots :
       (Starts(r) /\ calls'[r].outcome # "local" /\ enabled) =>
         LET ip == calls'[r].ip
             has == ip \in DOMAIN cache
         IN /\ calls'[r].outcome = "hit" =>
                 /\ has
                 /\ now - cache[ip].timestamp < cacheExpiration
                 /\ calls'[r].result = cache[ip].data
                 /\ cache' = cache
            /\ (has /\ now - cache[ip].timestamp >= cacheExpiration) =>
                 /\ calls'[r].outcome \in {"await", "simulated"}
                 /\ \/ ip \notin DOMAIN cache'
                    \/ cache'[ip].timestamp = now
            /\ (has /\ now - cache[ip].timestamp < cacheExpiration) =>
                 calls'[r].outcome = "hit"]_vars

\* C4 witness: a lookup met an entry exactly cacheExpiration old and did not
\* serve it.
C4_Witness ==
  \E r \in Slots :
    /\ calls[r].sawEntry
    /\ calls[r].started - calls[r].cachedTs = cacheExpiration
    /\ calls[r].outcome # "hit"

\* C5 as stated: two lookups of one address made within the TTL of each
\* other, the provider succeeding whenever it is asked, do not both ask it.
C5_AtMostOneProviderCall ==
  \A i, j \in Slots :
    ( /\ i # j
      /\ calls[i].pc = "done" /\ calls[j].pc = "done"
      /\ calls[i].outcome # "local" /\ calls[j].outcome # "local"
      /\ calls[i].ip = calls[j].ip
      /\ calls[j].started - calls[i].started < cacheExpiration
      /\ calls[i].started - calls[j].started < cacheExpiration
      /\ calls[i].called => calls[i].provider = "ok"
      /\ calls[j].called => calls[j].provider = "ok" )
    => ~(calls[i].called /\ calls[j].called)

\* C5 amended: a lookup that starts after an earlier lookup of the same
\* address has returned from a successful provider call, less than
\* cacheExpiration after that lookup began and with no clearCache() since it
\* returned, does not ask the provider.
C5_SequentialAtMostOnce ==
  [][\A i, j \in Slots :
       ( /\ calls[i].pc = "done"
         /\ calls[i].called /\ calls[i].provider = "ok"
         /\ ~calls[i].cleared
         /\ Starts(j)
         /\ calls'[j].outcome # "local"
         /\ calls'[j].ip = calls[i].ip
         /\ now - calls[i].started < cacheExpiration )
       => ~calls'[j].called]_vars

\* C5 witness: the second lookup, at the last instant within the TTL of the
\* first, is served from the cache the first one filled from the provider.
C5_Witness ==
  \E i, j \in Slots :
    /\ calls[i].called /\ calls[i].provider = "ok" /\ ~calls[i].cleared
    /\ calls[j].ip = calls[i].ip
    /\ calls[j].outcome = "hit"
    /\ calls[j].started - calls[i].started = cacheExpiration - 1

\* C6 as stated: when the provider fails (axios rejects, or the answer is
\* malformed or an error message), checkIp returns the fail-open verdict, the
\* gate admits, and the cache holds no entry for the address.
C6_FailureNotCached ==
  [][\A r \in Slots :
       (Settles(r) /\ calls'[r].provider \in {"throw", "malformed"}) =>
         /\ calls'[r].result = AllowVerdict
         /\ calls'[r].status = "next"
         /\ calls'[r].ip \notin DOMAIN cache']_vars

\* The address, cut at its dots.
RECURSIVE SplitDots(_)
SplitDots(s) ==
  IF s = <<>> THEN << <<>> >>
  ELSE LET rest == SplitDots(Tail(s))
       IN IF Head(s) = "." THEN << <<>> >> \o rest
          ELSE << <<Head(s)>> \o Head(rest) >> \o Tail(rest)

\* 127.0.0.1, 10.0.0.0/8, 192.168.0.0/16
InPrivateRanges(ip) ==
  LET o == SplitDots(ip)
  IN /\ Len(o) = 4
     /\ \/ ip = Loopback
        \/ o[1] = <<"1", "0">>
        \/ o[1] = <<"1", "9", "2">> /\ o[2] = <<"1", "6", "8">>

\* C7: a request whose address, with a leading ::ffff: stripped, is loopback
\* or private is admitted at once: checkIp is not called, the provider is not
\* asked, the cache is left as it is.
C7_LocalBypass ==
  [][\A r \in Slots :
       (Starts(r) /\ InPrivateRanges(cleanIpOf(calls'[r].hdr))) =>
         /\ calls'[r].pc = "done"
         /\ calls'[r].status = "next"
         /\ calls'[r].outcome = "local"
         /\ ~calls'[r].called
         /\ ~calls'[r].sawEntry
         /\ cache' = cache]_vars

\* C7 witness: an IPv6-mapped loopback address and a 10.x address were let
\* through while the cache held an entry.
C7_Witness ==
  /\ \E r \in Slots :
       calls[r].outcome = "local" /\ calls[r].hdr = V6Prefix \o Loopback
  /\ \E r \in Slots :
       calls[r].outcome = "local" /\ calls[r].hdr = AddrTen

----------------------------------------------------------------------------
(* Properties of the counters, under Spec *)

\* No HTTP request is between two of its steps and initializeCounters is over.
Quiescent ==
  /\ init.pc = "done"
  /\ \A q \in ReqSlots : reqs[q].pc \in {"idle", "done"}

\* C1 as stated: once every operation has completed, the stored
\* activatedEnigmas and solvedEnigmas are what the store held at the start
\* plus the number of increments applied to each, over HTTP and over the
\* socket.
C1_NoLostIncrement ==
  Quiescent =>
    /\ fieldOrZero(stats, "activatedEnigmas") =
         fieldOrZero(stats0, "activatedEnigmas") + ops.httpAct + ops.sockAct
    /\ fieldOrZero(stats, "solvedEnigmas") =
         fieldOrZero(stats0, "solvedEnigmas") + ops.httpSol + ops.sockSol

\* C2 as stated: activeUsers is never negative and is the number of
\* connections minus the number of disconnections, clamped at 0.
C2_ActiveUsersIsSessions ==
  /\ activeUsers >= 0
  /\ activeUsers = Max(0, ops.conn - ops.disc)

\* C3 as stated: no step takes activatedEnigmas or solvedEnigmas, in memory or
\* in the store, below the value it had.
C3_CountersNeverDecrease ==
  [][/\ activatedEnigmas' >= activatedEnigmas
     /\ solvedEnigmas' >= solvedEnigmas
     /\ fieldOrZero(stats', "activatedEnigmas") >= fieldOrZero(stats, "activatedEnigmas")
     /\ fieldOrZero(stats', "solvedEnigmas") >= fieldOrZero(stats, "solvedEnigmas")]_vars

\* The gate of VpnDetectionService: admitted iff the verdict is not
\* suspicious, and a rejection is a 403 with error, message and the verdict's
\* signals as details.
MiddlewareDecides ==
  \A r \in Slots :
    (calls[r].pc = "done" /\ calls[r].outcome # "local") =>
      /\ calls[r].status = "next" <=> ~Truthy(calls[r].result.isVpn)
      /\ Truthy(calls[r].result.isVpn) =>
           /\ calls[r].status = "403"
           /\ calls[r].body.fields = {"error", "message", "details"}
           /\ calls[r].body.details =
                [proxy |-> calls[r].result.proxy, vpn |-> calls[r].result.vpn,
                 tor |-> calls[r].result.tor]

\* The gate of the endpoints: a rejected request never reaches its handler
\* and is answered 403 with error, message and details.
CheckVpnDecides ==
  \A q \in ReqSlots :
    reqs[q].gate = "rejected" =>
      /\ reqs[q].pc = "done"
      /\ reqs[q].reply.status = 403
      /\ {"error", "message", "details"} \subseteq reqs[q].reply.fields

\* C8 as stated: the gate admits iff the verdict is not suspicious; a
\* rejection never reaches the handler and is a 403 whose body carries error,
\* message and details.
C8_GateVerdict == MiddlewareDecides /\ CheckVpnDecides

\* C9 as stated: a step that changes the stored stats or the in-memory
\* activatedEnigmas or solvedEnigmas on behalf of a requester is a step of a
\* request the gate allowed.
C9_GateBeforeMutation ==
  [][(<<activatedEnigmas, solvedEnigmas, stats>>' # <<activatedEnigmas, solvedEnigmas, stats>>
        /\ init' = init) =>
       \E q \in ReqSlots : reqs'[q] # reqs[q] /\ reqs[q].gate = "allowed"]_vars

----------------------------------------------------------------------------
(* Properties of newDifficulty, under SpecTier *)

\* tier 1 below 100, tier 2 from 100 and below 1000, tier 3 from 1000
Tier(n) == IF n < 100 THEN 1 ELSE IF n < 1000 THEN 2 ELSE 3

\* C10: each of the two computations gives Tier of the solved count, so they
\* give the same tier.
C10_TierFunction ==
  /\ httpTier # 0 => httpTier = Tier(tierInput)
  /\ socketTier # 0 => socketTier = Tier(tierInput)
  /\ (httpTier # 0 /\ socketTier # 0) => httpTier = socketTier

\* C10 witness: both computed at the threshold 1000.
C10_Witness == tierInput = 1000 /\ httpTier = 3 /\ socketTier = 3

----------------------------------------------------------------------------
(* Properties of the solves and of the broadcasts, under Spec *)

\* The in-memory snapshot { activeUsers, activatedEnigmas, solvedEnigmas }
memStats == StatsOf(activeUsers, activatedEnigmas, solvedEnigmas)

\* Request q answers in this step.
Answers(q) == reqs[q].pc \notin {"idle", "done"} /\ reqs'[q].pc = "done"

\* A difficulty_change is emitted in this step.
EmitsDifficultyChange == io'.changes = io.changes + 1

\* A stats_update is emitted in this step.
EmitsStatsUpdate == io'.sent = io.sent + 1

\* C11 as stated: the tier a solve reports, as newDifficulty in the HTTP
\* response or as level in difficulty_change, is never below a tier an
\* earlier solve reported.
C11_TierNeverLower ==
  [][/\ \A q \in ReqSlots :
          (reqs[q].pc = "sol_stats" /\ Answers(q)) =>
             reqs'[q].reply.newDifficulty >= topTier
     /\ EmitsDifficultyChange => io'.difficulty_change >= topTier]_vars

\* C12 as stated: an enigma_solved event emits difficulty_change iff the tier
\* of the solved count after the increment differs from the tier before it,
\* and the level emitted is the new tier.
C12_EmitsIffTierChanged ==
  [][ops'.sockSol # ops.sockSol =>
       /\ EmitsDifficultyChange <=> Tier(solvedEnigmas') # Tier(solvedEnigmas)
       /\ EmitsDifficultyChange => io'.difficulty_change = Tier(solvedEnigmas')]_vars

\* C13 as stated: a step of an HTTP handler or of a socket handler that
\* changes a counter, in memory or in the store, emits stats_update with the
\* new snapshot to every connected socket.
C13_MutationIsBroadcast ==
  [][(<<memStats, stats>>' # <<memStats, stats>> /\ init' = init) =>
       /\ EmitsStatsUpdate
       /\ io'.stats_update = memStats'
       /\ io'.to = connected']_vars

\* C14: the connection handler emits, in the step that counts the socket, a
\* stats_update that goes to every connected socket, the connecting one among
\* them, and carries the in-memory counters with activeUsers one above what it
\* was before the connection.
C14_SnapshotOnConnect ==
  [][ops'.conn # ops.conn =>
       /\ EmitsStatsUpdate
       /\ io'.stats_update = memStats'
       /\ io'.stats_update.activeUsers = activeUsers + 1
       /\ io'.to = connected'
       /\ io'.to >= 1]_vars

\* C14 witness: a second socket connects after hydration took activeUsers from
\* the store, and the snapshot went to both sockets.
C14_Witness ==
  /\ ops.conn = 2
  /\ init.pc = "done"
  /\ io.to = 2
  /\ io.sent = 2
  /\ io.stats_update = memStats
  /\ io.stats_update.activeUsers >= 2

\* C15 as stated: once no operation is in flight the in-memory snapshot equals
\* the stored stats field by field, and GET /api/stats returns what the latest
\* stats_update carried.
C15_MemoryEqualsStore ==
  Quiescent =>
    /\ memStats = stats
    /\ io.sent > 0 =>
         getStats(stats, activeUsers, activatedEnigmas, solvedEnigmas) =
           io.stats_update

\* C16: an activate or solve request that reached its handler with a userId
\* that has no user record is answered 404 in the step after its read, and that
\* step changes neither the counters, in memory or in the store, nor the users.
C16_UnknownIdentityNotFound ==
  [][\A q \in ReqSlots :
       (/\ reqs[q].pc \in {"act_read", "sol_read"}
        /\ reqs'[q] # reqs[q]
        /\ reqs[q].userId \notin DOMAIN users) =>
          /\ reqs'[q].pc = "done"
          /\ reqs'[q].reply.status = 404
          /\ <<memStats, stats, users>>' = <<memStats, stats, users>>]_vars

\* C16 witness: a solve and an activate for unregistered ids were answered 404
\* and the store holds what it held at the start.
C16_Witness ==
  /\ \E q \in ReqSlots : reqs[q].kind = "solve" /\ reqs[q].reply.status = 404
  /\ \E q \in ReqSlots : reqs[q].kind = "activate" /\ reqs[q].reply.status = 404
  /\ stats = stats0
  /\ stats # NoStats

\* C17 as stated: when the store rejects the write of a counter, the operation
\* still reports success, the in-memory counter keeps the increment and the
\* process keeps serving.
C17_WriteFailureSwallowed ==
  [][/\ process' = "serving"
     /\ \A q \in ReqSlots :
          (reqs[q].rejected /\ Answers(q)) =>
             /\ reqs'[q].reply.status = 200
             /\ "success" \in reqs'[q].reply.fields
     /\ ops'.sockAct # ops.sockAct => activatedEnigmas' = activatedEnigmas + 1
     /\ ops'.sockSol # ops.sockSol => solvedEnigmas' = solvedEnigmas + 1]_vars

\* C18 as stated: when initializeCounters completes, the in-memory counters
\* are the values of the stats record it read, or all zero when there was no
\* record, in which case the zero record was written.
C18_Hydration ==
  [][/\ (init.pc = "read" /\ init'.pc = "set") => stats' = StatsOf(0, 0, 0)
     /\ (init.pc # "done" /\ init'.pc = "done") =>
          memStats' = IF stats0 # NoStats
                      THEN StatsOf(fieldOrZero(stats0, "activeUsers"),
                                   fieldOrZero(stats0, "activatedEnigmas"),
                                   fieldOrZero(stats0, "solvedEnigmas"))
                      ELSE StatsOf(0, 0, 0)]_vars

\* C19: a register request that arrives when a user record holds its
\* fingerprint finds it, and is answered 200 with isNew false and the id of a
\* stored record of that fingerprint, in a step that changes neither the users
\* nor the counters.
C19_RegisterIdempotent ==
  [][\A q \in ReqSlots :
       /\ (/\ reqs[q].pc = "idle"
           /\ reqs'[q].pc = "reg_query"
           /\ \E k \in DOMAIN users : users[k].fingerprint = reqs'[q].fp) =>
             reqs'[q].found # {}
       /\ (reqs[q].pc = "reg_query" /\ reqs[q].found # {} /\ reqs'[q] # reqs[q]) =>
             /\ reqs'[q].pc = "done"
             /\ reqs'[q].reply.status = 200
             /\ reqs'[q].reply.isNew = FALSE
             /\ reqs'[q].reply.userId \in DOMAIN users
             /\ users[reqs'[q].reply.userId].fingerprint = reqs[q].fp
             /\ <<memStats, stats, users>>' = <<memStats, stats, users>>]_vars

\* C19 witness: a fingerprint registered by one request was registered again
\* by a second one, which got the id the first had created.
C19_Witness ==
  \E p, q \in ReqSlots :
    /\ reqs[p].kind = "register" /\ reqs[p].reply.isNew
    /\ reqs[q].kind = "register" /\ reqs[q].reply.status = 200
    /\ ~reqs[q].reply.isNew
    /\ reqs[q].reply.userId = reqs[p].reply.userId

\* The body of request r lacks a field its handler requires.
Malformed(r) ==
  \/ r.kind \in {"activate", "solve"} /\ r.userId = UndefinedId
  \/ r.kind = "solve" /\ r.level = UndefinedLevel

\* C20 as stated: no step of a request whose body lacks a required field
\* changes a counter or a user record, and the request is answered with a
\* client error (4xx).
C20_MalformedRejected ==
  [][\A q \in ReqSlots :
       (/\ reqs[q].pc \notin {"idle", "done"}
        /\ Malformed(reqs[q])
        /\ reqs'[q] # reqs[q]) =>
          /\ <<memStats, stats, users>>' = <<memStats, stats, users>>
          /\ reqs'[q].pc = "done" => reqs'[q].reply.status \in 400..499]_vars

----------------------------------------------------------------------------
(* Properties of the disabled service, under SpecGate *)

\* C21: with the service disabled, a call of checkIp returns the
\* non-suspicious verdict in the step it is made, the request is let through,
\* the provider is not called, no cache entry is looked at and the cache is
\* left as it was, which is empty since nothing ever wrote to it.
C21_DisabledAlwaysAllows ==
  [][\A r \in Slots :
       (Starts(r) /\ ~enabled /\ calls'[r].outcome # "local") =>
          /\ calls'[r].pc = "done"
          /\ calls'[r].outcome = "disabled"
          /\ calls'[r].result = AllowVerdict
          /\ calls'[r].status = "next"
          /\ ~calls'[r].called
          /\ ~calls'[r].sawEntry
          /\ cache' = cache
          /\ cache' = EmptyCache]_vars

\* C21 witness: with an API key configured and the service disabled, the same
\* public address was checked twice and let through both times.
C21_Witness ==
  /\ ~enabled
  /\ apiKey
  /\ \A r \in Slots :
       /\ calls[r].outcome = "disabled"
       /\ calls[r].ip = AddrPublic
       /\ calls[r].status = "next"

----------------------------------------------------------------------------
(* Properties of the client's call, under SpecClient *)

\* The solves counted since the call began, other than the call's own HTTP
\* solve and its enigma_solved event.
OtherSolves ==
  ops.httpSol + ops.sockSol - client.solves0
    - (IF client.status = 200 THEN 1 ELSE 0) - (IF client.emitted THEN 1 ELSE 0)

\* C22 as stated: once the HTTP solve of a registerEnigmaSolution call has
\* been answered with success and its enigma_solved event has been handled,
\* with no other solve in the meantime, the solved count is one above what it
\* was when the call began, in memory and in the store.
C22_SolveCountedOnce ==
  (/\ client.pc = "done"
   /\ client.emitted
   /\ client.status = 200
   /\ OtherSolves = 0
   /\ Quiescent) =>
     /\ solvedEnigmas = client.mem0 + 1
     /\ fieldOrZero(stats, "solvedEnigmas") = client.stored0 + 1

----------------------------------------------------------------------------
(* Properties of the registrations, under Spec *)

\* Request q was answered { userId, isNew: true }.
AnsweredNew(q) ==
  /\ reqs[q].pc = "done"
  /\ reqs[q].kind = "register"
  /\ reqs[q].reply.status = 200
  /\ reqs[q].reply.isNew

\* The fingerprints of the user records created since the process started.
FingerprintsCreated == {users[k].fingerprint : k \in DOMAIN users \cap ReqSlots}

\* C23 as stated: a fingerprint has at most one user record, no two register
\* requests of one fingerprint are both answered isNew = true, and the stored
\* activeUsers has been incremented at most once for each fingerprint that
\* was registered.
C23_OneIdentityPerFingerprint ==
  /\ \A fp \in Fingerprints : Cardinality(usersByFingerprint(users, fp)) <= 1
  /\ \A p, q \in ReqSlots :
       (p # q /\ AnsweredNew(p) /\ AnsweredNew(q)) =>
          users[reqs[p].reply.userId].fingerprint #
            users[reqs[q].reply.userId].fingerprint
  /\ fieldOrZero(stats, "activeUsers") <=
       fieldOrZero(stats0, "activeUsers") + Cardinality(FingerprintsCreated)

====
